---- MODULE Spec2Model ----
(***************************************************************************)
(* Model of the conversational-turn orchestrator VisualAIService            *)
(* (src/src/lib/constants.ts) and of ToolRegistry.executeToolCall           *)
(* (src/src/lib/tools/registry.ts), followed by the components around them: *)
(* the registry on its own, the audio encoder, the transcription pipeline   *)
(* and the voice-driven application with its input modal.  Each component   *)
(* has its own variables and its own specification; a specification leaves  *)
(* the variables of the other components as they are.                       *)
(*                                                                          *)
(* A turn is one call of getResponse.  JavaScript runs each piece of code   *)
(* between two awaits to completion, so every action below is one such      *)
(* piece: it starts when the awaited promise settles and ends at the next   *)
(* await or at the return/throw of getResponse.                             *)
(***************************************************************************)
EXTENDS Integers, Sequences, FiniteSets, TLC

\* ------------------------------------------------------------------ bounds
MaxTurns == 3        \* getResponse calls in one behaviour
MaxOutageTurns == 10 \* getResponse calls while the chat service is down
MaxCalls == 2        \* tool calls requested by one model response
MaxRegistryCalls == 2 \* executeToolCall calls in one behaviour of the registry
MaxPipelines == 2    \* onSpeechEnd activations that can be under way at once
MaxUtterances == 2   \* speech-end events in one behaviour
MaxChunks == 2       \* chunks chunkAudio cuts one utterance into
PipelineUtterances == 1 \* utterances taken through the pipeline one by one
MaxVoiceCalls == 1   \* tool calls one response requests in a voice turn
MaxSamples == 2      \* samples of an array handed to float32ToWav
MaxAmplitude == 8    \* largest sample magnitude, in units of 1/SampleDen
MaxAudioLen == 6     \* samples of an array handed to chunkAudio
MaxDuration == 8     \* largest chunk duration, in units of 1/DurationDen ms
MaxIterations == 6   \* chunks of one chunkAudio call that are kept
MaxInits == 2        \* initVAD calls in one behaviour
MaxStarts == 2       \* startCamera calls in one behaviour
MaxStores == 4       \* storeImage calls that store, in one behaviour
MaxClock == 4        \* milliseconds Date.now() tells apart

\* ------------------------------------------------------- program constants
HistoryCap == 10     \* conversationHistory.length > 10 triggers pruning
KeepRecent == 4      \* slice(-4) kept by pruning
FinalContext == 3    \* slice(-3) sent with the final-answer request
maxRecentImages == 3 \* ImageProcessor.maxRecentImages

SYSTEM_PROMPT == "SYSTEM_PROMPT"
FINAL_SUFFIX == "\n\nIMPORTANT: Tool calls have just provided valid information."
APOLOGY == "I apologize, but I encountered an error while trying to process your request."
NoName == ""

\* ------------------------------------------------------------ input domains
Texts == {"hello"}                         \* transcript handed to getResponse
ModalTool == "show_input_modal"            \* the tool that asks the user
\* names in the registry's map: a tool that needs no user, and the modal tool
RegisteredTools == {"gemini_search", ModalTool}
\* names of the calls whose execution needs no user
ToolNames == (RegisteredTools \ {ModalTool}) \cup {"no_such_tool"}
ValidJSON == {"{}"}                        \* payloads JSON.parse accepts
ArgPayloads == ValidJSON \cup {"{oops"}    \* serialized arguments of a call
\* the calls a model response may request: a registered tool with well-formed
\* arguments, a registered tool with malformed arguments, an unknown tool
ToolCalls ==
  { [name |-> "gemini_search", arguments |-> "{}"],
    [name |-> "gemini_search", arguments |-> "{oops"],
    [name |-> "no_such_tool", arguments |-> "{}"] }
\* what tool.execute(params) does once it is reached: "ok" resolves with
\* isError=false, "failed" resolves with isError=true (the tool caught its
\* own failure), "throws" rejects.  A turn draws from ExecOutcomes.
ExecOutcomes == {"ok", "throws"}
FirstContents == {"first answer"}          \* content of the first response
FinalContents == {"final answer"}          \* content of the final response

\* errors makeGroqRequest can end with: a non-success HTTP status with the
\* response body, or fetch itself rejecting (no response at all)
Errors ==
  { [kind |-> "http", status |-> "400", body |-> <<"bad", "request">>],
    [kind |-> "http", status |-> "500", body |-> <<"internal", "error">>],
    [kind |-> "http", status |-> "502", body |-> <<"upstream", "said", "400">>],
    [kind |-> "network", status |-> "", body |-> <<"Failed", "to", "fetch">>] }

\* a request that ended with a success status: the body is the completion
OkResponse(content) == [kind |-> "ok", status |-> "200", body |-> <<content>>]

VARIABLES
  history,               \* VisualAIService.conversationHistory
  pc,                    \* where getResponse stands
  turns,                 \* number of getResponse calls so far
  historyAtStart,        \* conversationHistory when the turn was entered
  requests,              \* chat-completion requests issued in this turn
  responses,             \* how each of them ended: OkResponse or the error
  toolCalls,             \* result.choices[0].message.tool_calls
  idx,                   \* position of the for-of loop in toolCalls
  toolCallResults,       \* local toolCallResults
  hasSuccessfulToolCall, \* local hasSuccessfulToolCall
  aiResponse,            \* local aiResponse
  errorMessage           \* message of the Error getResponse rejected with

turnVars == <<history, pc, turns, historyAtStart, requests, responses,
              toolCalls, idx, toolCallResults, hasSuccessfulToolCall,
              aiResponse, errorMessage>>

\* ToolRegistry on its own
VARIABLES
  regLog                 \* the executeToolCall calls made and how each ended

registryVars == <<regLog>>

\* the voice application: App.onSpeechEnd, AudioProcessor.processPipeline,
\* SpeechService.speak, ModalManager and the Modal component
VARIABLES
  frames,                \* the locals of each onSpeechEnd activation
  utterances,            \* number of speech-end events so far
  pushedBy,              \* for each entry of history, the utterance that
                         \* pushed it (0: the system message)
  modal,                 \* ModalManager.state
  ui,                    \* the Modal component's isOpen and value
  uiEvent,               \* what the user did in the modal in the last step
  status,                \* App's status line
  transcripts            \* App's transcripts, each with the utterance it
                         \* was shown for

voiceVars == <<frames, utterances, pushedBy, modal, ui, uiEvent, status,
               transcripts>>

\* the record of one getResponse turn, conversationHistory aside
turnRecord == <<pc, turns, historyAtStart, requests, responses, toolCalls,
                idx, toolCallResults, hasSuccessfulToolCall, aiResponse,
                errorMessage>>

\* AudioConverter
VARIABLES
  wavPc,                 \* whether float32ToWav has been called
  wavInput,              \* audioData of the float32ToWav call
  wavOutput,             \* what that call returned
  chunkPc,               \* where chunkAudio stands
  audioData,             \* chunkAudio's audioData
  samplesPerChunk,       \* chunkAudio's samplesPerChunk
  chunkI,                \* chunkAudio's loop variable i
  chunks                 \* chunkAudio's chunks, each with the bounds of its slice

wavVars == <<wavPc, wavInput, wavOutput>>
chunkVars == <<chunkPc, audioData, samplesPerChunk, chunkI, chunks>>

\* AudioProcessor's voice detection
VARIABLES
  vad                    \* vadInstance, isRecording, the detectors MicVAD.new
                         \* was asked for, and the last thing that happened

vadVars == <<vad>>

\* CameraManager
VARIABLES
  camera                 \* stream, videoElement, canvasElement, the video
                         \* element's state, the streams getUserMedia was asked
                         \* for, and the last call with its result

cameraVars == <<camera>>

\* ImageProcessor and the browser's localStorage
VARIABLES
  images                 \* the image items of localStorage, its
                         \* current-image-key and recent-image-keys, the clock,
                         \* and the storeImage calls that stored, newest first

imageVars == <<images>>

vars == <<turnVars, registryVars, voiceVars, wavVars, chunkVars, vadVars,
         cameraVars, imageVars>>

\* what a specification of one component leaves alone
beyondTurn == <<registryVars, voiceVars, wavVars, chunkVars, vadVars,
  cameraVars, imageVars>>
beyondRegistry == <<turnVars, voiceVars, wavVars, chunkVars, vadVars,
  cameraVars, imageVars>>
beyondVoice == <<turnRecord, registryVars, wavVars, chunkVars, vadVars,
  cameraVars, imageVars>>
beyondWav == <<turnVars, registryVars, voiceVars, chunkVars, vadVars,
  cameraVars, imageVars>>
beyondChunk == <<turnVars, registryVars, voiceVars, wavVars, vadVars,
  cameraVars, imageVars>>
beyondVad == <<turnVars, registryVars, voiceVars, wavVars, chunkVars,
  cameraVars, imageVars>>
beyondCamera == <<turnVars, registryVars, voiceVars, wavVars, chunkVars,
  vadVars, imageVars>>
beyondImages == <<turnVars, registryVars, voiceVars, wavVars, chunkVars,
  vadVars, cameraVars>>

\* ------------------------------------------------------------------ helpers
Max(a, b) == IF a > b THEN a ELSE b

\* Array.prototype.slice(-n): the last n elements, all of them when shorter
SliceLast(s, n) == SubSeq(s, Max(1, Len(s) - n + 1), Len(s))

\* String.prototype.includes on a message held as a sequence of words
Includes(msg, word) == \E i \in 1..Len(msg) : msg[i] = word

SystemMessage == [role |-> "system", name |-> NoName, content |-> SYSTEM_PROMPT]

\* the user message of a turn without a camera frame (imageData = null);
\* with a frame the content is the list of a text part and an image part
UserMessage(text) == [role |-> "user", name |-> NoName, content |-> text]

AssistantMessage(content) ==
  [role |-> "assistant", name |-> NoName, content |-> content]

Placeholder(toolCall) ==
  AssistantMessage("Let me check " \o toolCall.name \o "...")

FunctionMessage(toolCall, toolResult) ==
  [role |-> "function", name |-> toolCall.name,
   content |-> IF toolResult.isError THEN "Error: " \o toolResult.result
                                     ELSE toolResult.result]

\* ---------------------------------------------- ToolRegistry.executeToolCall
\* how a piece of code ends: it returns a ToolResult, or it throws an Error
\* whose message is held in result
Returns(result, isError) ==
  [thrown |-> FALSE, result |-> result, isError |-> isError]

Throws(message) == [thrown |-> TRUE, result |-> message, isError |-> FALSE]

\* how the execute function of a tool that needs no user ends
Executed(exec) ==
  IF exec = "ok"
    THEN Returns("search result", FALSE)
  ELSE IF exec = "failed"
    THEN Returns("Failed to perform Gemini search: Gemini API error: 500", TRUE)
  ELSE Throws("tool threw")

\* how the execute function of show_input_modal ends once the promise of
\* openModal is resolved with userInput
ShowInputModal(userInput) == Returns("User input: " \o userInput, FALSE)

\* mutation: JSON.parse of the arguments comes before the lookup by name
TryBodyParseFirst(toolCall, executed) ==
  IF toolCall.arguments \notin ValidJSON
    THEN Throws("Unexpected token in JSON")
  ELSE IF toolCall.name \notin RegisteredTools
    THEN Returns("Error: Unknown tool \"" \o toolCall.name \o "\"", TRUE)
  ELSE executed

\* the body of the try, lines 31-42: the lookup by name, then JSON.parse of
\* the arguments, then tool.execute; executed is how tool.execute(params)
\* ends when it is reached
TryBody(toolCall, executed) ==
  IF toolCall.name \notin RegisteredTools
    THEN Returns("Error: Unknown tool \"" \o toolCall.name \o "\"", TRUE)
  ELSE IF toolCall.arguments \notin ValidJSON
    THEN Throws("Unexpected token in JSON")
  ELSE executed

\* mutation: no catch, what the try body throws leaves executeToolCall
CatchNothing(outcome) == outcome

\* the catch, lines 43-48: whatever was thrown becomes an is-error result
CatchAll(outcome) ==
  IF outcome.thrown
    THEN Returns("Error executing tool: " \o outcome.result, TRUE)
    ELSE outcome

\* exec is what tool.execute(params) does when it is reached
ExecuteToolCall(toolCall, exec) == CatchAll(TryBody(toolCall, Executed(exec)))

\* --------------------------------------------- VisualAIService.makeGroqRequest
\* the request as it leaves: the messages serialized at the call, and
\* whether the tool schemas are attached
Request(messages, includeTools) ==
  [messages |-> messages, includeTools |-> includeTools]

\* error.message of the Error makeGroqRequest throws, as a sequence of words
ErrorMessage(err) ==
  IF err.kind = "http"
    THEN <<"Groq", "API", "error", "(", err.status, "):">> \o err.body
    ELSE err.body

\* ------------------------------------------------ VisualAIService.getResponse
\* mutation: every failure of the initial request is retried
ShouldRetryAlways(err) == TRUE

\* the catch of the initial request: retry without tools or rethrow
ShouldRetry(err) == Includes(ErrorMessage(err), "400")

\* mutation: one history entry fewer goes into the final-answer request
FinalMessagesShort(h) ==
  <<[role |-> "system", name |-> NoName,
     content |-> SYSTEM_PROMPT \o FINAL_SUFFIX]>> \o SliceLast(h, FinalContext - 1)

\* mutation: one history entry more goes into the final-answer request
FinalMessagesLong(h) ==
  <<[role |-> "system", name |-> NoName,
     content |-> SYSTEM_PROMPT \o FINAL_SUFFIX]>> \o SliceLast(h, FinalContext + 1)

\* messages of the final-answer request
FinalMessages(h) ==
  <<[role |-> "system", name |-> NoName,
     content |-> SYSTEM_PROMPT \o FINAL_SUFFIX]>> \o SliceLast(h, FinalContext)

\* mutation: the most recent entries are kept, the first one is not
PruneDropsFirst(h) ==
  IF Len(h) > HistoryCap THEN SliceLast(h, KeepRecent + 1) ELSE h

\* mutation: pruning already at the cap
PruneAtCap(h) ==
  IF Len(h) >= HistoryCap THEN <<h[1]>> \o SliceLast(h, KeepRecent) ELSE h

\* "Keep conversation history manageable"
Prune(h) ==
  IF Len(h) > HistoryCap THEN <<h[1]>> \o SliceLast(h, KeepRecent) ELSE h

\* mutation: only the call looked at last decides
SuccessfulLastOnly(flag, toolResult) == ~toolResult.isError

\* lines 226-228: the flag once toolResult has been looked at
Successful(flag, toolResult) == flag \/ ~toolResult.isError

\* mutation: a failed call ends the loop
LoopBreaksOnError(i, calls, toolResult) == i < Len(calls) /\ ~toolResult.isError

\* the for-of loop goes on to the next call whatever the result was
LoopContinues(i, calls, toolResult) == i < Len(calls)

\* mutation: the next call is announced before this call's function message
\* is appended
LoopTailEarly(h, functionMessage, nextCall) ==
  Append(Append(h, Placeholder(nextCall)), functionMessage)

\* lines 230-234 followed by the next iteration's lines 213-216: the
\* function message of this call, then the placeholder of the next one
LoopTail(h, functionMessage, nextCall) ==
  Append(Append(h, functionMessage), Placeholder(nextCall))

\* the outer catch: the Error getResponse rejects with
Rejection(err) ==
  <<"Error", "processing", "request:">> \o
    (IF ErrorMessage(err) = <<>> THEN <<"Unknown", "error", "occurred">>
                                 ELSE ErrorMessage(err))

Idle == pc \in {"idle", "resolved", "rejected"}

TurnInit ==
  /\ history = <<SystemMessage>>
  /\ pc = "idle"
  /\ turns = 0
  /\ historyAtStart = <<>>
  /\ requests = <<>>
  /\ responses = <<>>
  /\ toolCalls = <<>>
  /\ idx = 0
  /\ toolCallResults = <<>>
  /\ hasSuccessfulToolCall = FALSE
  /\ aiResponse = ""
  /\ errorMessage = <<>>

\* no executeToolCall call has been made on the registry on its own
RegistryAtRest == regLog = <<>>

\* ------------------------------------------------- the voice application
Pipelines == 1..MaxPipelines

\* a value the code leaves undefined
Undefined == 0

READY == "Ready to assist with your floral needs"
PROCESSING == "Processing your request..."
FAILED == "I apologize, but there was an error processing your request. Please try again."
UNABLE == "I apologize, but I was unable to process your request."

\* a segment of a transcription response: its three quality indicators
Segment(q) == [avg_logprob |-> q, compression_ratio |-> q, no_speech_prob |-> q]

\* combinedMetadata before any chunk set the indicators
NoMetadata == Segment(Undefined)

\* the locals of an onSpeechEnd activation that has not begun
NoFrame ==
  [pc |-> "idle", utterance |-> 0, chunks |-> 0, i |-> 0,
   uploads |-> <<>>, fullTranscript |-> <<>>, metadata |-> NoMetadata,
   requests |-> 0, toolCalls |-> <<>>, idx |-> 0, results |-> <<>>,
   hasSuccessfulToolCall |-> FALSE, aiResponse |-> "",
   awaitsModal |-> FALSE, openedWhileOpen |-> FALSE, spoke |-> "no"]

\* ModalManager.state before any modal, and after closeModal
ModalClosed == [isOpen |-> FALSE, value |-> "", resolve |-> 0]

\* the page as it loads: nobody has spoken
VoiceAtRest ==
  /\ frames = [p \in Pipelines |-> NoFrame]
  /\ utterances = 0
  /\ pushedBy = <<0>>
  /\ modal = ModalClosed
  /\ ui = [isOpen |-> FALSE, value |-> ""]
  /\ uiEvent = "none"
  /\ status = READY
  /\ transcripts = <<>>

\* AudioConverter has not been called
AudioAtRest ==
  /\ wavPc = "idle"
  /\ wavInput = <<>>
  /\ wavOutput = [data |-> <<>>, bytes |-> <<>>]
  /\ chunkPc = "idle"
  /\ audioData = <<>>
  /\ samplesPerChunk = 0
  /\ chunkI = 0
  /\ chunks = <<>>

\* ids of the detectors MicVAD.new is asked for, one per initVAD call
Detectors == 1..MaxInits
Null == 0

NoEvent == [kind |-> "none", by |-> Null]

\* vadInstance = null, isRecording = false (part_008 lines 23-24), and
\* initVAD has not been called
VadAtRest ==
  vad = [vadInstance |-> Null,
         isRecording |-> FALSE,
         detectors |-> [k \in Detectors |-> "unborn"],
         event |-> NoEvent,
         stoppedInits |-> {}]

\* ids of the streams getUserMedia is asked for, one per startCamera call
Streams == 1..MaxStarts

\* stream, videoElement and canvasElement are null (App.tsx lines 241-243),
\* the video element shows nothing and captureFrame has not been called
CameraAtRest ==
  camera = [stream |-> Null,
            videoElement |-> FALSE,
            canvasElement |-> FALSE,
            srcObject |-> Null,
            dimensions |-> "unknown",
            streams |-> [k \in Streams |-> "unborn"],
            call |-> "none",
            result |-> "none"]

\* an image key is prefix + Date.now() with the one prefix storeImage is
\* called with: the key is modelled by its timestamp
ImageKeys == 1..MaxClock

\* localStorage holds no image and neither list nor current key; the clock
\* shows its first millisecond
ImagesAtRest ==
  images = [items |-> [key \in ImageKeys |-> Null],
            currentImageKey |-> Null,
            recentImageKeys |-> <<>>,
            now |-> 1,
            stored |-> <<>>,
            success |-> "none"]

Init ==
  /\ TurnInit
  /\ RegistryAtRest
  /\ VoiceAtRest
  /\ AudioAtRest
  /\ VadAtRest
  /\ CameraAtRest
  /\ ImagesAtRest

\* getResponse is entered: the user message is pushed and the initial,
\* tool-augmented request leaves
GetResponse(text) ==
  /\ Idle
  /\ turns' = turns + 1
  /\ historyAtStart' = history
  /\ history' = Append(history, UserMessage(text))
  /\ requests' = <<Request(history', TRUE)>>
  /\ responses' = <<>>
  /\ toolCalls' = <<>>
  /\ idx' = 0
  /\ toolCallResults' = <<>>
  /\ hasSuccessfulToolCall' = FALSE
  /\ aiResponse' = ""
  /\ errorMessage' = <<>>
  /\ pc' = "initial"

\* the push of the final assistant message, the pruning and the return
Finish(h, answer) ==
  /\ history' = Prune(Append(h, AssistantMessage(answer)))
  /\ aiResponse' = answer
  /\ pc' = "resolved"

\* the code after a first response arrived (of the initial request or of
\* its retry): lines 206-218 up to the first await of the loop
AfterFirstResponse(content, calls) ==
  /\ responses' = Append(responses, OkResponse(content))
  /\ toolCalls' = calls
  /\ IF calls = <<>>
       THEN /\ Finish(history, content)
            /\ UNCHANGED idx
       ELSE /\ history' = Append(history, Placeholder(calls[1]))
            /\ aiResponse' = content
            /\ idx' = 1
            /\ pc' = "tool"
  /\ UNCHANGED <<turns, historyAtStart, requests, toolCallResults,
                 hasSuccessfulToolCall, errorMessage>>

CallSeqs == UNION {[1..n -> ToolCalls] : n \in 0..MaxCalls}

\* the initial request succeeds
InitialResponds(content, calls) ==
  /\ pc = "initial"
  /\ AfterFirstResponse(content, calls)

\* the initial request fails: retry once without tools when the error
\* message includes '400', otherwise rethrow to the outer catch
InitialFails(err) ==
  /\ pc = "initial"
  /\ responses' = Append(responses, err)
  /\ IF ShouldRetry(err)
       THEN /\ requests' = Append(requests, Request(history, FALSE))
            /\ pc' = "retry"
            /\ UNCHANGED errorMessage
       ELSE /\ errorMessage' = Rejection(err)
            /\ pc' = "rejected"
            /\ UNCHANGED requests
  /\ UNCHANGED <<history, turns, historyAtStart, toolCalls, idx,
                 toolCallResults, hasSuccessfulToolCall, aiResponse>>

\* the tools-omitted retry succeeds
RetryResponds(content, calls) ==
  /\ pc = "retry"
  /\ AfterFirstResponse(content, calls)

\* mutation: the rejection takes the turn's user message back
RetryFailsRollback(err) ==
  /\ pc = "retry"
  /\ responses' = Append(responses, err)
  /\ errorMessage' = Rejection(err)
  /\ history' = historyAtStart
  /\ pc' = "rejected"
  /\ UNCHANGED <<turns, historyAtStart, requests, toolCalls, idx,
                 toolCallResults, hasSuccessfulToolCall, aiResponse>>

\* the tools-omitted retry fails: the error reaches the outer catch
RetryFails(err) ==
  /\ pc = "retry"
  /\ responses' = Append(responses, err)
  /\ errorMessage' = Rejection(err)
  /\ pc' = "rejected"
  /\ UNCHANGED <<history, turns, historyAtStart, requests, toolCalls, idx,
                 toolCallResults, hasSuccessfulToolCall, aiResponse>>

\* executeToolCall of toolCalls[idx] settles: lines 220-235, then either the
\* next iteration up to its await, or the code after the loop
ToolReturns(exec) ==
  /\ pc = "tool"
  /\ LET toolCall == toolCalls[idx]
         toolResult == ExecuteToolCall(toolCall, exec)
         success == Successful(hasSuccessfulToolCall, toolResult)
         functionMessage == FunctionMessage(toolCall, toolResult)
         h == Append(history, functionMessage)
     IN /\ toolCallResults' =
             Append(toolCallResults,
                    [name |-> toolCall.name, result |-> toolResult.result,
                     isError |-> toolResult.isError])
        /\ hasSuccessfulToolCall' = success
        /\ IF LoopContinues(idx, toolCalls, toolResult)
             THEN /\ history' =
                       LoopTail(history, functionMessage, toolCalls[idx + 1])
                  /\ idx' = idx + 1
                  /\ UNCHANGED <<pc, requests, aiResponse>>
             ELSE IF success
               THEN /\ history' = h
                    /\ requests' = Append(requests, Request(FinalMessages(h), FALSE))
                    /\ pc' = "final"
                    /\ UNCHANGED <<idx, aiResponse>>
               ELSE /\ Finish(h, aiResponse)
                    /\ UNCHANGED <<idx, requests>>
  /\ UNCHANGED <<turns, historyAtStart, responses, toolCalls, errorMessage>>

\* the final-answer request succeeds: its content is the answer
FinalResponds(content) ==
  /\ pc = "final"
  /\ responses' = Append(responses, OkResponse(content))
  /\ Finish(history, content)
  /\ UNCHANGED <<turns, historyAtStart, requests, toolCalls, idx,
                 toolCallResults, hasSuccessfulToolCall, errorMessage>>

\* mutation: the failure of the final-answer request reaches the outer catch
FinalFailsRethrow(err) ==
  /\ pc = "final"
  /\ responses' = Append(responses, err)
  /\ errorMessage' = Rejection(err)
  /\ pc' = "rejected"
  /\ UNCHANGED <<history, turns, historyAtStart, requests, toolCalls, idx,
                 toolCallResults, hasSuccessfulToolCall, aiResponse>>

\* the final-answer request fails: the inner catch takes the apology
FinalFails(err) ==
  /\ pc = "final"
  /\ responses' = Append(responses, err)
  /\ Finish(history, APOLOGY)
  /\ UNCHANGED <<turns, historyAtStart, requests, toolCalls, idx,
                 toolCallResults, hasSuccessfulToolCall, errorMessage>>

\* VisualAIService.clearHistory, called between two turns; what is recorded
\* of the last turn (its locals, requests and result) is forgotten
ClearHistory ==
  /\ Idle
  /\ history' = <<history[1]>>
  /\ pc' = "idle"
  /\ historyAtStart' = <<>>
  /\ requests' = <<>>
  /\ responses' = <<>>
  /\ toolCalls' = <<>>
  /\ idx' = 0
  /\ toolCallResults' = <<>>
  /\ hasSuccessfulToolCall' = FALSE
  /\ aiResponse' = ""
  /\ errorMessage' = <<>>
  /\ UNCHANGED turns

Next ==
  \/ /\ \E text \in Texts : turns < MaxTurns /\ GetResponse(text)
     /\ UNCHANGED beyondTurn
  \/ /\ \E content \in FirstContents, calls \in CallSeqs :
          InitialResponds(content, calls)
     /\ UNCHANGED beyondTurn
  \/ /\ \E err \in Errors : InitialFails(err)
     /\ UNCHANGED beyondTurn
  \/ /\ \E content \in FirstContents, calls \in CallSeqs :
          RetryResponds(content, calls)
     /\ UNCHANGED beyondTurn
  \/ /\ \E err \in Errors : RetryFails(err)
     /\ UNCHANGED beyondTurn
  \/ /\ \E exec \in ExecOutcomes : ToolReturns(exec)
     /\ UNCHANGED beyondTurn
  \/ /\ \E content \in FinalContents : FinalResponds(content)
     /\ UNCHANGED beyondTurn
  \/ /\ \E err \in Errors : FinalFails(err)
     /\ UNCHANGED beyondTurn
  \/ /\ ClearHistory
     /\ UNCHANGED beyondTurn

Spec == Init /\ [][Next]_vars

\* the chat-completion service is down: every request of every turn fails
NextOutage ==
  \/ /\ \E text \in Texts : turns < MaxOutageTurns /\ GetResponse(text)
     /\ UNCHANGED beyondTurn
  \/ /\ \E err \in Errors : InitialFails(err)
     /\ UNCHANGED beyondTurn
  \/ /\ \E err \in Errors : RetryFails(err)
     /\ UNCHANGED beyondTurn

SpecOutage == Init /\ [][NextOutage]_vars

\* ====================================================================
\* Properties
\* ====================================================================

\* position in history of the user message of the turn
UserIndex == Len(historyAtStart) + 1

\* the placeholder and the function message of the j-th requested call, as
\* the history has to hold them
PlaceholderOf(j) ==
  [role |-> "assistant", name |-> NoName,
   content |-> "Let me check " \o toolCalls[j].name \o "..."]

FunctionMessageOf(j) ==
  [role |-> "function", name |-> toolCalls[j].name,
   content |-> IF toolCallResults[j].isError
                 THEN "Error: " \o toolCallResults[j].result
                 ELSE toolCallResults[j].result]

\* some executed call of the turn returned isError = false
AnySuccess == \E j \in 1..Len(toolCallResults) : ~toolCallResults[j].isError

\* index of the request whose response was the turn's first response
FirstOkIndex == IF responses[1].kind = "ok" THEN 1 ELSE 2

\* C1: while the tool calls of a turn are being worked on, the history is the
\* history at the start of the turn, the user message, then for every call
\* already executed its placeholder followed by its function message, in the
\* order the calls were returned; while call idx is executing the history
\* ends with the placeholder of idx, so the function messages of all earlier
\* calls are already there and no later call has been announced or started.
C1_ToolCallsSequential ==
  pc \in {"tool", "final"} =>
    LET done == Len(toolCallResults) IN
      /\ done = (IF pc = "tool" THEN idx - 1 ELSE Len(toolCalls))
      /\ Len(history) = UserIndex + 2 * done + (IF pc = "tool" THEN 1 ELSE 0)
      /\ SubSeq(history, 1, UserIndex - 1) = historyAtStart
      /\ history[UserIndex].role = "user"
      /\ \A j \in 1..done :
           /\ history[UserIndex + 2 * j - 1] = PlaceholderOf(j)
           /\ history[UserIndex + 2 * j] = FunctionMessageOf(j)
           /\ toolCallResults[j].name = toolCalls[j].name
      /\ pc = "tool" => history[Len(history)] = PlaceholderOf(idx)

\* the second of two calls is executing, the first one has its messages
C1_Witness == pc = "tool" /\ idx = 2 /\ Len(toolCalls) = 2

\* C2: in a resolved turn whose first response requested tool calls, exactly
\* one more request was issued, without tools, if and only if some tool call
\* returned isError = false, and the content it returned is the answer; if
\* no call succeeded no further request was issued and the answer is the
\* content of the first response.  The answer is the last history entry.
C2_FinalRequestIffSuccess ==
  (pc = "resolved" /\ toolCalls # <<>>) =>
    LET last == Len(requests) IN
      /\ AnySuccess <=> last = FirstOkIndex + 1
      /\ ~AnySuccess <=> last = FirstOkIndex
      /\ AnySuccess =>
           /\ ~requests[last].includeTools
           /\ responses[last].kind = "ok" => aiResponse = responses[last].body[1]
      /\ ~AnySuccess => aiResponse = responses[FirstOkIndex].body[1]
      /\ history[Len(history)] = AssistantMessage(aiResponse)

\* a call succeeded, a later one failed, and the final request was answered
C2_Witness ==
  /\ pc = "resolved"
  /\ Len(toolCallResults) = 2
  /\ ~toolCallResults[1].isError
  /\ toolCallResults[2].isError
  /\ aiResponse \in FinalContents

\* no call succeeded and the answer is the first response's content
C2_WitnessNoSuccess ==
  /\ pc = "resolved"
  /\ Len(toolCallResults) = 2
  /\ ~AnySuccess
  /\ aiResponse \in FirstContents

\* the error message of a failed request contains "400"
Has400(response) ==
  /\ response.kind = "http"
  /\ \/ response.status = "400"
     \/ \E i \in 1..Len(response.body) : response.body[i] = "400"

\* C3 as stated: a rejected turn has always retried once, without tools,
\* before the failure is surfaced.
C3_AlwaysRetried ==
  pc = "rejected" => (Len(requests) = 2 /\ ~requests[2].includeTools)

\* C3 amended: the initial request carries the tools; if it fails with an
\* error whose message contains "400" the same messages are sent once more
\* without tools; if it fails with any other error the turn is rejected at
\* once, without a retry; a request other than the initial one is never
\* followed by a retry, and a failed retry rejects the turn.
C3_RetryOnlyOn400 ==
  Len(responses) >= 1 =>
    LET first == responses[1] IN
      /\ requests[1].includeTools
      /\ Len(responses) <= Len(requests)
      /\ (first.kind # "ok" /\ Has400(first)) =>
           /\ Len(requests) >= 2
           /\ requests[2] =
                [messages |-> requests[1].messages, includeTools |-> FALSE]
      /\ (first.kind # "ok" /\ ~Has400(first)) =>
           (pc = "rejected" /\ Len(requests) = 1)
      /\ \A i \in 2..Len(responses) :
           responses[i].kind # "ok" => i = Len(requests)
      /\ (Len(responses) >= 2 /\ first.kind # "ok" /\ responses[2].kind # "ok")
           => pc = "rejected"

\* the initial request failed with a 400, the retry failed too
C3_Witness ==
  /\ pc = "rejected"
  /\ Len(requests) = 2
  /\ responses[1].status = "400"
  /\ responses[2].kind # "ok"

\* the last request of the turn has failed and no other request followed it
LastRequestFailed ==
  /\ Len(responses) > 0
  /\ Len(responses) = Len(requests)
  /\ responses[Len(responses)].kind # "ok"

\* C4 as stated: whichever request of the turn ends in an error that is not
\* retried, the turn is rejected.
C4_EveryTransportErrorRejects == LastRequestFailed => pc = "rejected"

\* C4 amended: an error of the initial request that is not retried, or of the
\* tools-omitted retry, rejects the turn with "Error processing request: "
\* followed by the error's message; an error of the final-answer request
\* does not: the turn resolves, all tool calls executed, with the apology
\* as its answer.  A turn is rejected in no other case.
C4_TransportErrors ==
  LET n == Len(responses) IN
    /\ LastRequestFailed =>
         IF n >= 2 /\ responses[n - 1].kind = "ok"
           THEN /\ pc = "resolved"
                /\ aiResponse = APOLOGY
                /\ history[Len(history)] = AssistantMessage(APOLOGY)
                /\ Len(toolCallResults) = Len(toolCalls)
                /\ AnySuccess
           ELSE /\ pc = "rejected"
                /\ toolCalls = <<>>
                /\ errorMessage = <<"Error", "processing", "request:">>
                                    \o ErrorMessage(responses[n])
    /\ pc = "rejected" => LastRequestFailed

\* the final-answer request failed after one failed and one successful call
C4_Witness ==
  /\ pc = "resolved"
  /\ LastRequestFailed
  /\ Len(toolCallResults) = 2

C6_ToolErrorsDoNotAbort ==
  /\ pc = "rejected" => (toolCalls = <<>> /\ toolCallResults = <<>>)
  /\ pc = "tool" => (idx <= Len(toolCalls) /\ Len(toolCallResults) = idx - 1)
  /\ pc \in {"final", "resolved"} =>
       /\ Len(toolCallResults) = Len(toolCalls)
       /\ \A j \in 1..Len(toolCalls) :
            toolCallResults[j].name = toolCalls[j].name

\* an unknown tool, then malformed arguments: both fail, the turn resolves
C6_Witness ==
  /\ pc = "resolved"
  /\ Len(toolCalls) = 2
  /\ toolCalls[1].name \notin RegisteredTools
  /\ toolCalls[2].arguments \notin ValidJSON
  /\ toolCallResults[1].isError
  /\ toolCallResults[2].isError
  /\ aiResponse \in FirstContents

\* the first of two calls failed and the second succeeded
FailedThenSucceeded ==
  /\ Len(toolCallResults) = 2
  /\ toolCallResults[1].isError
  /\ ~toolCallResults[2].isError

C8_SystemMessageKept ==
  /\ Len(history) >= 1
  /\ history[1] = SystemMessage
  /\ \A i \in 2..Len(history) : history[i].role # "system"

\* a turn that started on an already pruned history has been pruned again
C8_Witness ==
  /\ pc = "resolved"
  /\ turns = 3
  /\ Len(historyAtStart) = KeepRecent + 1
  /\ Len(history) = KeepRecent + 1
  /\ Len(toolCalls) = 2

\* the history of a completing turn before it is pruned: what was there,
\* the function message of a call that has just returned, the final answer
UnprunedHistory ==
  LET n == Len(toolCallResults')
      r == toolCallResults'[n]
      before ==
        IF pc = "tool"
          THEN Append(history,
                      [role |-> "function", name |-> r.name,
                       content |-> IF r.isError THEN "Error: " \o r.result
                                                ELSE r.result])
          ELSE history
  IN Append(before, AssistantMessage(aiResponse'))

\* C9: when a turn completes, if the history with the final answer appended
\* holds more than 10 messages it becomes its first message followed by its
\* last 4 in their order (5 messages, the last one the final answer);
\* otherwise it is that history as it is.
C9_PruneAtEndOfTurn ==
  [][(pc # "resolved" /\ pc' = "resolved") =>
       LET full == UnprunedHistory IN
         IF Len(full) > HistoryCap
           THEN /\ Len(history') = KeepRecent + 1
                /\ history'[1] = full[1]
                /\ \A k \in 1..KeepRecent :
                     history'[1 + k] = full[Len(full) - KeepRecent + k]
                /\ history'[KeepRecent + 1] = AssistantMessage(aiResponse')
           ELSE history' = full]_vars

\* a completed turn left 5 messages of a history that held 7 when it began
C9_Witness ==
  /\ pc = "resolved"
  /\ Len(historyAtStart) = 7
  /\ Len(history) = KeepRecent + 1

\* a completed turn left exactly 10 messages: not pruned
C9_WitnessAtCap == pc = "resolved" /\ Len(history) = HistoryCap

\* C10 as stated: whenever no turn is in progress the history holds at most
\* 10 messages.
C10_HistoryBounded == Idle => Len(history) <= HistoryCap

\* the roles of the messages of a request
RolesOf(request) ==
  [i \in 1..Len(request.messages) |-> request.messages[i].role]

C26_WitnessOneCall ==
  /\ pc = "final"
  /\ Len(toolCalls) = 1
  /\ RolesOf(requests[Len(requests)]) =
       <<"system", "user", "assistant", "function">>

\* C27 as stated: in every history, after any sequence of turns and
\* prunings, each function-role message is immediately preceded by the
\* assistant placeholder that announces the same tool.
C27_FunctionAfterPlaceholder ==
  \A i \in 1..Len(history) :
    history[i].role = "function" =>
      /\ i > 1
      /\ history[i - 1] =
           AssistantMessage("Let me check " \o history[i].name \o "...")

\* ====================================================================
\* ToolRegistry on its own
\* ====================================================================

\* every call a model response can carry: a registered or an unknown name,
\* with arguments that parse or do not
RegistryToolCalls == [name : ToolNames, arguments : ArgPayloads]

\* everything tool.execute(params) can do
RegistryExecOutcomes == {"ok", "failed", "throws"}

\* the promise executeToolCall returns settles; what it settled with and for
\* which call is kept
RegistryExecute(toolCall, exec) ==
  /\ Len(regLog) < MaxRegistryCalls
  /\ regLog' = Append(regLog, [call |-> toolCall, exec |-> exec,
                                outcome |-> ExecuteToolCall(toolCall, exec)])
  /\ UNCHANGED beyondRegistry

NextRegistry ==
  \E toolCall \in RegistryToolCalls, exec \in RegistryExecOutcomes :
    RegistryExecute(toolCall, exec)

SpecRegistry == Init /\ [][NextRegistry]_vars

\* C11: executeToolCall never throws: every call ends with a ToolResult.  For
\* an unregistered name the result is the "Unknown tool" error with isError
\* true; for a registered name, arguments that do not parse and an execution
\* function that throws both end as a result with isError true whose text is
\* "Error executing tool: " and the exception's message; the tool's own
\* result is returned as it is.
C11_NeverThrows ==
  \A i \in 1..Len(regLog) :
    LET e == regLog[i] IN
      /\ ~e.outcome.thrown
      /\ e.call.name \notin RegisteredTools =>
           /\ e.outcome.isError
           /\ e.outcome.result = "Error: Unknown tool \"" \o e.call.name \o "\""
      /\ (e.call.name \in RegisteredTools /\ e.call.arguments \notin ValidJSON) =>
           /\ e.outcome.isError
           /\ e.outcome.result = "Error executing tool: Unexpected token in JSON"
      /\ (e.call.name \in RegisteredTools /\ e.call.arguments \in ValidJSON) =>
           /\ e.outcome.isError = (e.exec # "ok")
           /\ e.exec = "throws" =>
                e.outcome.result = "Error executing tool: tool threw"

\* a registered tool has thrown, then an unknown tool was called
C11_Witness ==
  /\ Len(regLog) = 2
  /\ regLog[1].call.name \in RegisteredTools
  /\ regLog[1].call.arguments \in ValidJSON
  /\ regLog[1].exec = "throws"
  /\ regLog[1].outcome.isError
  /\ regLog[2].call.name \notin RegisteredTools

\* the calls executed whose arguments do not parse
Malformed == {i \in 1..Len(regLog) : regLog[i].call.arguments \notin ValidJSON}

ParseError == "Error executing tool: Unexpected token in JSON"

\* C25 as stated: the arguments are parsed before the tool is looked up, so
\* a call with malformed arguments ends with the argument-parsing error
\* ("Error executing tool: ...") whether or not the named tool is registered.
C25_ParseBeforeLookup ==
  \A i \in Malformed :
    /\ regLog[i].outcome.isError
    /\ regLog[i].outcome.result = ParseError

\* C25 amended: the tool is looked up before the arguments are parsed.  A
\* call with malformed arguments ends with the argument-parsing error when
\* the named tool is registered and with the "Unknown tool" error when it is
\* not; both are results with isError true.
C25_LookupBeforeParse ==
  \A i \in Malformed :
    LET e == regLog[i] IN
      /\ ~e.outcome.thrown
      /\ e.outcome.isError
      /\ e.outcome.result =
           IF e.call.name \in RegisteredTools THEN ParseError
           ELSE "Error: Unknown tool \"" \o e.call.name \o "\""

\* malformed arguments were sent to an unknown tool, then to a registered one
C25_Witness ==
  /\ Len(regLog) = 2
  /\ Malformed = {1, 2}
  /\ regLog[1].call.name \notin RegisteredTools
  /\ regLog[1].outcome.isError
  /\ regLog[2].call.name \in RegisteredTools
  /\ regLog[2].outcome.result = ParseError

\* ====================================================================
\* The voice application
\* ====================================================================

\* ------------------------------------------------------------- texts
\* a text is the sequence of its words and white-space characters
Space == " "

RECURSIVE Render(_)
\* the string a text stands for
Render(text) ==
  IF text = <<>> THEN "" ELSE text[1] \o Render(Tail(text))

RECURSIVE TrimStart(_)
TrimStart(text) ==
  IF text # <<>> /\ text[1] = Space THEN TrimStart(Tail(text)) ELSE text

Reverse(text) == [k \in 1..Len(text) |-> text[Len(text) + 1 - k]]

\* String.prototype.trim
Trim(text) == Reverse(TrimStart(Reverse(TrimStart(text))))

\* ------------------------------------------- AudioProcessor.processPipeline
\* mutation: chunks are joined without a separator
AppendTextBare(fullTranscript, i, text) == fullTranscript \o text

\* line 100, for the i-th chunk counted from 1: a single space, then the
\* chunk's text as it is
AppendText(fullTranscript, i, text) ==
  fullTranscript \o (IF i > 1 THEN <<Space>> ELSE <<>>) \o text

\* mutation: a chunk without segments clears the indicators
UpdateMetadataOrClear(metadata, segments) ==
  IF Len(segments) > 0 THEN segments[Len(segments)] ELSE NoMetadata

\* lines 103-111
UpdateMetadata(metadata, segments) ==
  IF Len(segments) > 0 THEN segments[Len(segments)] ELSE metadata

\* mutation: a failed upload is skipped
UploadFailedNever(response) == FALSE

\* line 92
UploadFailed(response) == ~response.ok

\* ---------------------------------------------------- the state, as a value
World ==
  [history |-> history, pushedBy |-> pushedBy, modal |-> modal, ui |-> ui,
   frames |-> frames, status |-> status, transcripts |-> transcripts]

Becomes(w) ==
  /\ history' = w.history
  /\ pushedBy' = w.pushedBy
  /\ modal' = w.modal
  /\ ui' = w.ui
  /\ frames' = w.frames
  /\ status' = w.status
  /\ transcripts' = w.transcripts

\* conversationHistory.push(message) by the turn of activation p
Push(w, p, message) ==
  [w EXCEPT !.history = Append(@, message),
            !.pushedBy = Append(@, w.frames[p].utterance)]

\* the catch of onSpeechEnd, part_004 lines 83-86: whatever processPipeline
\* rejected with, the status line apologizes and nothing is added to the
\* transcripts
Rejected(w, p) ==
  [w EXCEPT !.frames[p].pc = "failed", !.status = FAILED]

\* processPipeline resolves (part_008 lines 120-124) and onSpeechEnd shows the
\* turn (part_004 lines 47-82) when the transcript is not empty
Resolved(w, p) ==
  LET f == w.frames[p]
      transcript == Render(Trim(f.fullTranscript))
      shown ==
        << [text |-> transcript, type |-> "user", metadata |-> f.metadata,
            utterance |-> f.utterance],
           [text |-> IF f.aiResponse # "" THEN f.aiResponse ELSE UNABLE,
            type |-> "ai", metadata |-> NoMetadata,
            utterance |-> f.utterance] >>
  IN [w EXCEPT !.frames[p].pc = "done",
               !.status = READY,
               !.transcripts = IF transcript # "" THEN @ \o shown ELSE @]

\* SpeechService.speak up to its first await: nothing to say, or the
\* text-to-speech request leaves
Speak(w, p) ==
  IF w.frames[p].aiResponse = ""
    THEN Resolved(w, p)
    ELSE [w EXCEPT !.frames[p].pc = "tts"]

\* the end of getResponse (constants.ts lines 253-267) and processPipeline's
\* next line
Answered(w, p, answer) ==
  LET pushed == Push(w, p, AssistantMessage(answer))
  IN Speak([pushed EXCEPT !.history = Prune(@),
                          !.pushedBy = Prune(@),
                          !.frames[p].aiResponse = answer], p)

\* ModalManager.openModal, called for activation p
OpenModal(w, p) ==
  [w EXCEPT !.modal = [isOpen |-> TRUE, value |-> "", resolve |-> p],
            !.ui = [isOpen |-> TRUE, value |-> ""],
            !.frames[p].awaitsModal = TRUE,
            !.frames[p].openedWhileOpen = w.modal.isOpen]

\* executeToolCall of the current call up to its first await: the modal tool
\* opens the modal as soon as its execute function is reached
StartTool(w, p) ==
  LET toolCall == w.frames[p].toolCalls[w.frames[p].idx]
  IN IF /\ toolCall.name = ModalTool
        /\ toolCall.arguments \in ValidJSON
       THEN OpenModal(w, p)
       ELSE w

\* constants.ts lines 220-247 once executeToolCall settled with toolResult
AfterTool(w, p, toolResult) ==
  LET f == w.frames[p]
      toolCall == f.toolCalls[f.idx]
      success == Successful(f.hasSuccessfulToolCall, toolResult)
      functionMessage == FunctionMessage(toolCall, toolResult)
      noted ==
        [w EXCEPT !.frames[p].results =
                     Append(@, [name |-> toolCall.name,
                                result |-> toolResult.result,
                                isError |-> toolResult.isError]),
                  !.frames[p].hasSuccessfulToolCall = success,
                  !.frames[p].awaitsModal = FALSE]
  IN IF LoopContinues(f.idx, f.toolCalls, toolResult)
       THEN StartTool(
              [noted EXCEPT !.history =
                               LoopTail(@, functionMessage, f.toolCalls[f.idx + 1]),
                            !.pushedBy = @ \o <<f.utterance, f.utterance>>,
                            !.frames[p].idx = f.idx + 1], p)
     ELSE IF success
       THEN [Push(noted, p, functionMessage)
               EXCEPT !.frames[p].pc = "final",
                      !.frames[p].requests = @ + 1]
     ELSE Answered(Push(noted, p, functionMessage), p, f.aiResponse)

\* ModalManager.closeModal(value): the promise held in state.resolve is
\* resolved with value, or with state.value when value is empty; the state is
\* reset; the tool call that awaited the promise goes on
CloseModal(w, value) ==
  LET holder == w.modal.resolve
      userInput == IF value # "" THEN value ELSE w.modal.value
      closed == [w EXCEPT !.modal = ModalClosed,
                          !.ui = [isOpen |-> FALSE, value |-> ""]]
  IN IF holder # 0
       THEN LET f == w.frames[holder]
            IN AfterTool(closed, holder,
                         CatchAll(TryBody(f.toolCalls[f.idx],
                                          ShowInputModal(userInput))))
       ELSE closed

\* ----------------------------------------------------------------- inputs
\* what the transcription service answers for one chunk: a text that ends
\* with a space, with one segment; a text with two segments; white space
\* without any segment; a non-success status
UploadResponses ==
  { [ok |-> TRUE, text |-> <<"hello", Space>>, segments |-> <<Segment(1)>>],
    [ok |-> TRUE, text |-> <<"world">>, segments |-> <<Segment(1), Segment(2)>>],
    [ok |-> TRUE, text |-> <<Space>>, segments |-> <<>>],
    [ok |-> FALSE, text |-> <<>>, segments |-> <<>>] }

\* the same for a conversation whose wording does not matter
PlainUploadResponses ==
  { [ok |-> TRUE, text |-> <<"hello">>, segments |-> <<Segment(1)>>],
    [ok |-> FALSE, text |-> <<>>, segments |-> <<>>] }

\* the calls a response requests in a voice turn
VoiceToolCalls ==
  { [name |-> ModalTool, arguments |-> "{}"],
    [name |-> "gemini_search", arguments |-> "{}"] }
VoiceCallSeqs == UNION {[1..n -> VoiceToolCalls] : n \in 0..MaxVoiceCalls}

\* what the user can type into the modal
ModalValues == {"roses"}

\* ---------------------------------------------------------------- actions
Free(p) == frames[p].pc \in {"idle", "done", "failed"}

\* a speech-end event: onSpeechEnd (part_004 lines 41-45), processPipeline
\* with chunkAudio returning n chunks, and the upload of the first chunk
SpeechEnd(n) ==
  /\ utterances < MaxUtterances
  /\ \E p \in Pipelines :
       /\ Free(p)
       /\ \A q \in Pipelines : q < p => ~Free(q)
       /\ Becomes([World EXCEPT
                     !.status = PROCESSING,
                     !.frames[p] = [NoFrame EXCEPT !.pc = "upload",
                                                   !.utterance = utterances + 1,
                                                   !.chunks = n,
                                                   !.i = 1]])
  /\ utterances' = utterances + 1
  /\ uiEvent' = "none"
  /\ UNCHANGED beyondVoice

\* the upload of chunk i is answered: part_008 lines 92-112, then the next
\* upload or the entry of getResponse up to its first request
UploadSettles(p, response) ==
  /\ frames[p].pc = "upload"
  /\ LET f == frames[p]
         received == [World EXCEPT !.frames[p].uploads = Append(@, response)]
         fullTranscript == AppendText(f.fullTranscript, f.i, response.text)
         taken ==
           [received EXCEPT
              !.frames[p].fullTranscript = fullTranscript,
              !.frames[p].metadata = UpdateMetadata(@, response.segments)]
     IN IF UploadFailed(response)
          THEN Becomes(Rejected(received, p))
        ELSE IF f.i < f.chunks
          THEN Becomes([taken EXCEPT !.frames[p].i = f.i + 1])
        ELSE Becomes([Push(taken, p, UserMessage(Render(Trim(fullTranscript))))
                        EXCEPT !.frames[p].pc = "initial",
                               !.frames[p].requests = 1])
  /\ uiEvent' = "none"
  /\ UNCHANGED <<utterances, beyondVoice>>

\* a first response arrives, of the initial request or of its retry
ChatResponds(p, content, calls) ==
  /\ frames[p].pc \in {"initial", "retry"}
  /\ IF calls = <<>>
       THEN Becomes(Answered(World, p, content))
       ELSE Becomes(StartTool([Push(World, p, Placeholder(calls[1]))
                                 EXCEPT !.frames[p].toolCalls = calls,
                                        !.frames[p].idx = 1,
                                        !.frames[p].aiResponse = content,
                                        !.frames[p].pc = "tool"], p))
  /\ uiEvent' = "none"
  /\ UNCHANGED <<utterances, beyondVoice>>

\* the initial request fails: one retry without tools, or the rejection
\* goes through processPipeline to onSpeechEnd
ChatFails(p, err) ==
  /\ frames[p].pc = "initial"
  /\ IF ShouldRetry(err)
       THEN Becomes([World EXCEPT !.frames[p].pc = "retry",
                                  !.frames[p].requests = @ + 1])
       ELSE Becomes(Rejected(World, p))
  /\ uiEvent' = "none"
  /\ UNCHANGED <<utterances, beyondVoice>>

\* the retry fails
ChatRetryFails(p, err) ==
  /\ frames[p].pc = "retry"
  /\ Becomes(Rejected(World, p))
  /\ uiEvent' = "none"
  /\ UNCHANGED <<utterances, beyondVoice>>

\* the call of a tool that needs no user settles
VoiceToolReturns(p, exec) ==
  /\ frames[p].pc = "tool"
  /\ ~frames[p].awaitsModal
  /\ Becomes(AfterTool(World, p,
                       ExecuteToolCall(frames[p].toolCalls[frames[p].idx], exec)))
  /\ uiEvent' = "none"
  /\ UNCHANGED <<utterances, beyondVoice>>

\* the final-answer request is answered, or fails and the apology is taken
ChatFinalResponds(p, content) ==
  /\ frames[p].pc = "final"
  /\ Becomes(Answered(World, p, content))
  /\ uiEvent' = "none"
  /\ UNCHANGED <<utterances, beyondVoice>>

ChatFinalFails(p, err) ==
  /\ frames[p].pc = "final"
  /\ Becomes(Answered(World, p, APOLOGY))
  /\ uiEvent' = "none"
  /\ UNCHANGED <<utterances, beyondVoice>>

\* the text-to-speech request is answered: SpeechService.ts lines 37-47, a
\* non-success status is thrown and rethrown by speak and by processPipeline
SpeechFetched(p, ok) ==
  /\ frames[p].pc = "tts"
  /\ IF ok
       THEN Becomes([World EXCEPT !.frames[p].pc = "play"])
       ELSE Becomes(Rejected([World EXCEPT !.frames[p].spoke = "failed"], p))
  /\ uiEvent' = "none"
  /\ UNCHANGED <<utterances, beyondVoice>>

\* audioElement.play() settles: SpeechService.ts lines 49-56
PlaySettles(p, ok) ==
  /\ frames[p].pc = "play"
  /\ IF ok
       THEN Becomes(Resolved([World EXCEPT !.frames[p].spoke = "yes"], p))
       ELSE Becomes(Rejected([World EXCEPT !.frames[p].spoke = "failed"], p))
  /\ uiEvent' = "none"
  /\ UNCHANGED <<utterances, beyondVoice>>

\* the user types into the modal's input: part_003 lines 48-51
TypeValue(v) ==
  /\ ui.isOpen
  /\ v # ui.value
  /\ ui' = [ui EXCEPT !.value = v]
  /\ modal' = [modal EXCEPT !.value = v]
  /\ uiEvent' = "type"
  /\ UNCHANGED <<history, pushedBy, frames, status, transcripts, utterances,
                 beyondVoice>>

\* the user submits the form: part_003 lines 21-24
Submit ==
  /\ ui.isOpen
  /\ Becomes(CloseModal(World, ui.value))
  /\ uiEvent' = "submit"
  /\ UNCHANGED <<utterances, beyondVoice>>

\* the user dismisses the modal: part_003 lines 26-28
Cancel ==
  /\ ui.isOpen
  /\ Becomes(CloseModal(World, ""))
  /\ uiEvent' = "cancel"
  /\ UNCHANGED <<utterances, beyondVoice>>

\* the voice application, the user speaking whenever the detector hears them;
\* every utterance is short enough for a single chunk
NextVoice ==
  \/ SpeechEnd(1)
  \/ \E p \in Pipelines, response \in PlainUploadResponses : UploadSettles(p, response)
  \/ \E p \in Pipelines, content \in FirstContents, calls \in VoiceCallSeqs :
       ChatResponds(p, content, calls)
  \/ \E p \in Pipelines, err \in Errors : ChatFails(p, err)
  \/ \E p \in Pipelines, err \in Errors : ChatRetryFails(p, err)
  \/ \E p \in Pipelines, exec \in ExecOutcomes : VoiceToolReturns(p, exec)
  \/ \E p \in Pipelines, content \in FinalContents : ChatFinalResponds(p, content)
  \/ \E p \in Pipelines, err \in Errors : ChatFinalFails(p, err)
  \/ \E p \in Pipelines, ok \in BOOLEAN : SpeechFetched(p, ok)
  \/ \E p \in Pipelines, ok \in BOOLEAN : PlaySettles(p, ok)
  \/ \E v \in ModalValues \cup {""} : TypeValue(v)
  \/ Submit
  \/ Cancel

SpecVoice == Init /\ [][NextVoice]_vars

\* the calls of a turn whose utterance is followed through the pipeline
PipelineCallSeqs == {<<>>} \cup {<<toolCall>> : toolCall \in VoiceToolCalls}

\* the voice application, the user speaking only once the previous utterance
\* has been dealt with
NextPipeline ==
  \/ \E n \in 1..MaxChunks :
       /\ utterances < PipelineUtterances
       /\ \A p \in Pipelines : Free(p)
       /\ SpeechEnd(n)
  \/ \E p \in Pipelines, response \in UploadResponses : UploadSettles(p, response)
  \/ \E p \in Pipelines, content \in FirstContents, calls \in PipelineCallSeqs :
       ChatResponds(p, content, calls)
  \/ \E p \in Pipelines, err \in Errors : ChatFails(p, err)
  \/ \E p \in Pipelines, err \in Errors : ChatRetryFails(p, err)
  \/ \E p \in Pipelines, exec \in ExecOutcomes : VoiceToolReturns(p, exec)
  \/ \E p \in Pipelines, content \in FinalContents : ChatFinalResponds(p, content)
  \/ \E p \in Pipelines, err \in Errors : ChatFinalFails(p, err)
  \/ \E p \in Pipelines, ok \in BOOLEAN : SpeechFetched(p, ok)
  \/ \E p \in Pipelines, ok \in BOOLEAN : PlaySettles(p, ok)
  \/ \E v \in ModalValues \cup {""} : TypeValue(v)
  \/ Submit
  \/ Cancel

SpecPipeline == Init /\ [][NextPipeline]_vars

\* ====================================================================
\* Properties of the voice application
\* ====================================================================

\* activation p is inside getResponse: its user message is in the history
\* and the promise of getResponse has not settled
InTurn(p) == frames[p].pc \in {"initial", "retry", "tool", "final"}

\* C12: at most one conversational turn is in flight: whatever speech-end
\* events arrive, no second getResponse pushes to the conversation history
\* before the previous one has settled, so the entries pushed by one turn are
\* never separated by an entry of another turn.
C12_OneTurnAtATime ==
  /\ Cardinality({p \in Pipelines : InTurn(p)}) <= 1
  /\ \A i, j, k \in DOMAIN pushedBy :
       (i < j /\ j < k /\ pushedBy[i] = pushedBy[k]) => pushedBy[j] = pushedBy[i]

\* C13: at most one modal request is pending: openModal is never entered
\* while a modal is already open, and every pending promise of openModal is
\* the one held in state.resolve, the one a later closeModal resolves; no
\* show_input_modal call waits for a promise nobody holds.
C13_OneModalRequest ==
  /\ Cardinality({p \in Pipelines : frames[p].awaitsModal}) <= 1
  /\ \A p \in Pipelines :
       frames[p].awaitsModal =>
         /\ ~frames[p].openedWhileOpen
         /\ modal.resolve = p

\* C14: a show_input_modal call invoked while no modal is open has the modal
\* open for as long as it is pending; it completes only in a step that calls
\* closeModal; and in the step in which the user submits the value v it
\* completes with {result: "User input: " + v, isError: false} and the modal
\* it opened is closed (the modal is open afterwards only for the next call
\* of the same turn).
C14_ModalRoundTrip ==
  [][\A p \in Pipelines :
       (frames[p].awaitsModal /\ ~frames[p].openedWhileOpen) =>
         /\ modal.isOpen
         /\ Len(frames'[p].results) > Len(frames[p].results) =>
              uiEvent' \in {"submit", "cancel"}
         /\ uiEvent' = "submit" =>
              /\ Len(frames'[p].results) = frames[p].idx
              /\ frames'[p].results[frames[p].idx] =
                   [name |-> ModalTool,
                    result |-> "User input: " \o ui.value,
                    isError |-> FALSE]
              /\ modal'.isOpen =>
                   /\ frames'[p].awaitsModal
                   /\ frames'[p].idx = frames[p].idx + 1]_vars

\* the ToolResult of a show_input_modal call whose promise was resolved with
\* userInput
ModalResult(userInput) ==
  [name |-> ModalTool, result |-> "User input: " \o userInput, isError |-> FALSE]

\* C28: closeModal(v) resolves the pending modal request with exactly the
\* value v it is given: submitting resolves it with the text of the input,
\* and dismissing the dialog (Cancel or the close button, which pass the
\* empty string) resolves it with the empty string whatever text had been
\* typed.
C28_CloseResolvesWithArgument ==
  [][\A p \in Pipelines :
       (modal.resolve = p /\ uiEvent' \in {"submit", "cancel"}) =>
         /\ Len(frames'[p].results) = frames[p].idx
         /\ frames'[p].results[frames[p].idx] =
              ModalResult(IF uiEvent' = "submit" THEN ui.value ELSE "")]_vars

\* ------------------------------------------------ the pipeline's transcript
\* the texts of the chunk responses received so far, in upload order
TextsOf(uploads) == [k \in 1..Len(uploads) |-> uploads[k].text]

RECURSIVE Joined(_)
\* texts put one after the other with exactly one space between two of them
Joined(texts) ==
  IF texts = <<>> THEN <<>>
  ELSE IF Len(texts) = 1 THEN texts[1]
  ELSE texts[1] \o <<Space>> \o Joined(Tail(texts))

AllOk(uploads) == \A k \in 1..Len(uploads) : uploads[k].ok

\* the transcript processPipeline hands to getResponse and returns
Transcript(f) == Render(Trim(Joined(TextsOf(f.uploads))))

\* the user message pushed for the utterance of f, where the history still
\* holds it
UserMessagesOf(f) ==
  {i \in DOMAIN history : pushedBy[i] = f.utterance /\ history[i].role = "user"}

\* the transcripts shown for the utterance of f
ShownFor(f) ==
  SelectSeq(transcripts, LAMBDA t : t.utterance = f.utterance)

\* C15: processPipeline uploads the chunks one at a time and in order: while
\* the upload of chunk i is awaited, the responses of chunks 1..i-1 and no
\* other have arrived.  The transcript is the text fields of the responses in
\* that order with exactly one space between two consecutive chunks, whatever
\* white space the texts themselves begin or end with (trimmed as a whole):
\* it is the text of the turn's user message and of the transcript shown.
C15_TranscriptJoined ==
  \A p \in Pipelines :
    LET f == frames[p] IN
      /\ f.pc = "upload" => (Len(f.uploads) = f.i - 1 /\ f.i <= f.chunks)
      /\ AllOk(f.uploads) => f.fullTranscript = Joined(TextsOf(f.uploads))
      /\ f.pc \notin {"idle", "upload", "failed"} =>
           /\ Len(f.uploads) = f.chunks
           /\ AllOk(f.uploads)
      /\ \A i \in UserMessagesOf(f) : history[i].content = Transcript(f)
      /\ (f.pc = "done" /\ Transcript(f) # "") =>
           /\ Len(ShownFor(f)) = 2
           /\ ShownFor(f)[1].type = "user"
           /\ ShownFor(f)[1].text = Transcript(f)

\* the chunks "hello " and "world" were transcribed and the turn is shown
\* with the transcript "hello  world", two spaces
C15_Witness ==
  \E p \in Pipelines :
    /\ frames[p].pc = "done"
    /\ TextsOf(frames[p].uploads) = << <<"hello", Space>>, <<"world">> >>
    /\ ShownFor(frames[p])[1].text = "hello  world"
    /\ \E i \in UserMessagesOf(frames[p]) : history[i].content = "hello  world"

\* C16: when the upload of a chunk is answered with a non-success status,
\* processPipeline rejects at that chunk: that response is the last one
\* received (no later chunk is uploaded), no chat-completion request is made,
\* the history has no message of the utterance, nothing is spoken and
\* nothing is shown.
C16_UploadFailureRejects ==
  \A p \in Pipelines :
    LET f == frames[p] IN
      \A k \in 1..Len(f.uploads) :
        ~f.uploads[k].ok =>
          /\ k = Len(f.uploads)
          /\ f.pc = "failed"
          /\ f.requests = 0
          /\ \A i \in DOMAIN pushedBy : pushedBy[i] # f.utterance
          /\ f.spoke = "no"
          /\ ShownFor(f) = <<>>

\* the first of two chunks was transcribed, the upload of the second failed
C16_Witness ==
  \E p \in Pipelines :
    /\ frames[p].chunks = 2
    /\ Len(frames[p].uploads) = 2
    /\ frames[p].uploads[1].ok
    /\ ~frames[p].uploads[2].ok
    /\ frames[p].pc = "failed"

\* the first of two chunks failed: the second is never uploaded
C16_WitnessFirstChunk ==
  \E p \in Pipelines :
    /\ frames[p].chunks = 2
    /\ Len(frames[p].uploads) = 1
    /\ ~frames[p].uploads[1].ok
    /\ frames[p].pc = "failed"

\* the responses among uploads that carry at least one segment
WithSegments(uploads) ==
  {k \in 1..Len(uploads) : uploads[k].ok /\ Len(uploads[k].segments) > 0}

\* the last segment of response k
LastSegment(uploads, k) == uploads[k].segments[Len(uploads[k].segments)]

\* processPipeline has resolved for f and the turn is shown
Reported(f) == f.pc = "done" /\ Transcript(f) # ""

\* C17 as stated: the quality indicators reported for an utterance are those
\* of the final segment of the final chunk's response and of no earlier chunk.
C17_FinalChunkOnly ==
  \A p \in Pipelines :
    LET f == frames[p] IN
      Reported(f) =>
        ShownFor(f)[1].metadata =
          IF f.chunks \in WithSegments(f.uploads)
            THEN LastSegment(f.uploads, f.chunks)
            ELSE NoMetadata

\* C17, amended: the quality indicators reported for an utterance are those
\* of the final segment of the last chunk response that carries at least one
\* segment (the final chunk's when it has segments); a response without
\* segments leaves the indicators of an earlier chunk in place, and no
\* indicator is reported when no response carries a segment.
C17_LastChunkWithSegments ==
  \A p \in Pipelines :
    LET f == frames[p]
        with == WithSegments(f.uploads)
        expected ==
          IF with = {} THEN NoMetadata
          ELSE LastSegment(f.uploads, CHOOSE k \in with : \A m \in with : m <= k)
    IN /\ f.metadata = expected
       /\ Reported(f) => ShownFor(f)[1].metadata = expected

\* a two-chunk utterance is shown with the indicators of its second chunk,
\* which differ from those of the first
C17_Witness ==
  \E p \in Pipelines :
    LET f == frames[p] IN
      /\ Reported(f)
      /\ f.chunks = 2
      /\ WithSegments(f.uploads) = {1, 2}
      /\ LastSegment(f.uploads, 1) # LastSegment(f.uploads, 2)
      /\ ShownFor(f)[1].metadata = LastSegment(f.uploads, 2)

\* a two-chunk utterance whose second response has no segment is shown with
\* the indicators of its first chunk
C17_WitnessEarlierChunk ==
  \E p \in Pipelines :
    LET f == frames[p] IN
      /\ Reported(f)
      /\ f.chunks = 2
      /\ WithSegments(f.uploads) = {1}
      /\ ShownFor(f)[1].metadata = LastSegment(f.uploads, 1)

\* C18: a failure of speech synthesis or of playback inside
\* SpeechService.speak does not keep the turn from completing:
\* processPipeline still resolves with the transcript and the answer, and the
\* turn is shown.
C18_SpeechFailureTolerated ==
  \A p \in Pipelines :
    LET f == frames[p] IN
      f.spoke = "failed" =>
        /\ f.pc = "done"
        /\ Transcript(f) # "" => Len(ShownFor(f)) = 2

\* ====================================================================
\* AudioConverter
\* ====================================================================

\* ------------------------------------------------------------ samples
\* a Float32 sample is the fraction num / SampleDen, or NaN, or an infinity
SampleDen == 4

Finite(num) == [kind |-> "finite", num |-> num]
NaN == [kind |-> "nan", num |-> 0]
PlusInfinity == [kind |-> "+inf", num |-> 0]
MinusInfinity == [kind |-> "-inf", num |-> 0]

Min(a, b) == IF a < b THEN a ELSE b

NegScale == 32768          \* 0x8000
PosScale == 32767          \* 0x7FFF
Int16Modulus == 65536      \* an Int16Array element holds 16 bits

\* mutation: the sample is scaled as it is
ClampNone(x) == x

\* Math.max(-1, Math.min(1, x)): NaN stays NaN
Clamp(x) ==
  IF x.kind = "nan" THEN NaN
  ELSE IF x.kind = "+inf" THEN Finite(SampleDen)
  ELSE IF x.kind = "-inf" THEN Finite(-SampleDen)
  ELSE Finite(Max(-SampleDen, Min(SampleDen, x.num)))

\* s < 0 ? s * 0x8000 : s * 0x7FFF, again in units of 1/SampleDen;
\* NaN < 0 is false and NaN * 0x7FFF is NaN
Scaled(s) ==
  IF s.kind = "finite"
    THEN Finite(IF s.num < 0 THEN s.num * NegScale ELSE s.num * PosScale)
  ELSE IF s.kind = "-inf" THEN MinusInfinity
  ELSE s

\* the integer part of num / den, den > 0, rounding toward zero
Truncated(num, den) ==
  IF num >= 0 THEN num \div den ELSE -((-num) \div den)

\* the store into an Int16Array element: NaN and the infinities become 0, a
\* number is truncated and taken modulo 2^16 into [-32768, 32767]
ToInt16(v) ==
  IF v.kind # "finite" THEN 0
  ELSE ((Truncated(v.num, SampleDen) + NegScale) % Int16Modulus) - NegScale

\* part_009 lines 7-11
Int16Array(samples) ==
  [k \in 1..Len(samples) |-> ToInt16(Scaled(Clamp(samples[k])))]

\* ------------------------------------------------------- the WAV bytes
NumChannels == 1
SampleRate == 16000        \* also the rate chunkAudio assumes
BitsPerSample == 16
BitsPerByte == 8
HeaderSize == 44
ByteModulus == 256

\* string.charCodeAt(i) for the four tags of the header
RIFF == <<82, 73, 70, 70>>
WAVE == <<87, 65, 86, 69>>
FMT == <<102, 109, 116, 32>>
DATA == <<100, 97, 116, 97>>

\* byte k of the unsigned number v, byte 0 the least significant
ByteOf(v, k) == (v \div (ByteModulus ^ k)) % ByteModulus

\* mutation: the most significant byte is written first
Uint32BE(v) == <<ByteOf(v, 3), ByteOf(v, 2), ByteOf(v, 1), ByteOf(v, 0)>>

\* the bytes DataView.setUint32(offset, v, true) writes, little-endian
Uint32LE(v) == <<ByteOf(v, 0), ByteOf(v, 1), ByteOf(v, 2), ByteOf(v, 3)>>

\* the bytes DataView.setUint16(offset, v, true) writes
Uint16LE(v) == <<ByteOf(v, 0), ByteOf(v, 1)>>

\* the bytes DataView.setInt16(offset, v, true) writes: two's complement
Int16LE(v) == Uint16LE((v + Int16Modulus) % Int16Modulus)

\* a write into the DataView: bytes stored from a byte offset on
Write(offset, bytes) == [offset |-> offset, bytes |-> bytes]

\* lines 23-35: the writes of the header, in the order of the code
HeaderWrites(length) ==
  << Write(0, RIFF),
     Write(4, Uint32LE(36 + length * 2)),
     Write(8, WAVE),
     Write(12, FMT),
     Write(16, Uint32LE(16)),
     Write(20, Uint16LE(1)),
     Write(22, Uint16LE(NumChannels)),
     Write(24, Uint32LE(SampleRate)),
     Write(28, Uint32LE((SampleRate * NumChannels * BitsPerSample)
                          \div BitsPerByte)),
     Write(32, Uint16LE((NumChannels * BitsPerSample) \div BitsPerByte)),
     Write(34, Uint16LE(BitsPerSample)),
     Write(36, DATA),
     Write(40, Uint32LE(length * 2)) >>

\* lines 37-40: the samples are written from offset 44 on, two bytes each
SampleWrites(int16Array) ==
  [i \in 1..Len(int16Array) |->
     Write(HeaderSize + (i - 1) * 2, Int16LE(int16Array[i]))]

\* the byte at offset j - 1 of a zeroed buffer after the writes: 0 if no write
\* reached it, else what the last write that reached it stored
ByteAt(j, writes) ==
  LET reaching == {w \in 1..Len(writes) :
                     /\ writes[w].offset < j
                     /\ j <= writes[w].offset + Len(writes[w].bytes)}
  IN IF reaching = {} THEN 0
     ELSE LET last == CHOOSE w \in reaching : \A x \in reaching : x <= w
          IN writes[last].bytes[j - writes[last].offset]

\* new ArrayBuffer(size) after the writes; the byte at offset o is element
\* o + 1
Written(size, writes) == [j \in 1..size |-> ByteAt(j, writes)]

\* AudioConverter.float32ToWav: the 16-bit samples and the bytes of the
\* blob; the array and the list of writes are each worked out once
Float32ToWav(samples) ==
  CHOOSE blob \in
    { [data |-> int16Array,
       bytes |-> Written(HeaderSize + Len(int16Array) * 2, writes)] :
        <<int16Array, writes>> \in
          { <<a, HeaderWrites(Len(a)) \o SampleWrites(a)>> :
              a \in {Int16Array(samples)} } } : TRUE

\* the sample values tried: from -MaxAmplitude/SampleDen to
\* MaxAmplitude/SampleDen, NaN and the infinities
Samples ==
  {Finite(num) : num \in -MaxAmplitude..MaxAmplitude}
    \cup {NaN, PlusInfinity, MinusInfinity}

SampleArrays == UNION {[1..n -> Samples] : n \in 0..MaxSamples}

\* the call of float32ToWav
Encode(samples) ==
  /\ wavPc = "idle"
  /\ wavPc' = "returned"
  /\ wavInput' = samples
  /\ wavOutput' = Float32ToWav(samples)
  /\ UNCHANGED beyondWav

NextWav == \E samples \in SampleArrays : Encode(samples)

SpecWav == Init /\ [][NextWav]_vars

\* ----------------------------------------------- AudioConverter.chunkAudio
MsPerSecond == 1000

\* a chunk duration is the fraction duration / DurationDen of a millisecond
DurationDen == 32

\* Math.floor((chunkDurationMs / 1000) * 16000)
SamplesPerChunk(duration) ==
  (duration * SampleRate) \div (MsPerSecond * DurationDen)

\* Float32Array.prototype.slice(start, end) for 0 <= start and end <= length
Slice(samples, start, end) == SubSeq(samples, start + 1, end)

\* an array of n samples, each different from its neighbours
Ramp(n) == [k \in 1..n |-> Finite(k)]

\* chunkAudio is called: lines 46-47
ChunkAudio(n, duration) ==
  /\ chunkPc \in {"idle", "returned"}
  /\ audioData' = Ramp(n)
  /\ samplesPerChunk' = SamplesPerChunk(duration)
  /\ chunkI' = 0
  /\ chunks' = <<>>
  /\ chunkPc' = "loop"
  /\ UNCHANGED beyondChunk

\* the loop condition holds: line 49
ChunkEnter ==
  /\ chunkPc = "loop"
  /\ chunkI < Len(audioData)
  /\ chunkPc' = "body"
  /\ UNCHANGED <<audioData, samplesPerChunk, chunkI, chunks, beyondChunk>>

\* the body of the loop and its increment: lines 49-53; of a call that
\* pushes more than MaxIterations chunks the first MaxIterations are kept
ChunkIteration ==
  /\ chunkPc = "body"
  /\ LET chunkEnd == Min(chunkI + samplesPerChunk, Len(audioData))
         chunk == Slice(audioData, chunkI, chunkEnd)
     IN chunks' =
          IF Len(chunks) < MaxIterations
            THEN Append(chunks, [from |-> chunkI, to |-> chunkEnd,
                                 wav |-> Float32ToWav(chunk)])
            ELSE chunks
  /\ chunkI' = chunkI + samplesPerChunk
  /\ chunkPc' = "loop"
  /\ UNCHANGED <<audioData, samplesPerChunk, beyondChunk>>

\* the loop condition fails: line 55
ChunkReturn ==
  /\ chunkPc = "loop"
  /\ ~(chunkI < Len(audioData))
  /\ chunkPc' = "returned"
  /\ UNCHANGED <<audioData, samplesPerChunk, chunkI, chunks, beyondChunk>>

NextChunk ==
  \/ \E n \in 0..MaxAudioLen, duration \in 0..MaxDuration : ChunkAudio(n, duration)
  \/ ChunkEnter
  \/ ChunkIteration
  \/ ChunkReturn

SpecChunk == Init /\ [][NextChunk]_vars

\* chunkAudio has no await between its first and its last line: once called
\* it runs on until it returns
SpecChunkRuns ==
  /\ SpecChunk
  /\ WF_vars(ChunkEnter)
  /\ WF_vars(ChunkIteration)
  /\ WF_vars(ChunkReturn)

\* ====================================================================
\* Properties of AudioConverter
\* ====================================================================

\* the number of samples in chunk k
ChunkSize(k) == Len(chunks[k].wav.data)

\* C19: whatever the length n of the sample array and the chunk duration,
\* with w = floor(chunkDurationMs / 1000 * 16000): the chunks are consecutive
\* and do not overlap (each starts where the one before ends, the first at
\* 0), every chunk but the last has exactly w samples, the last has between
\* 1 and w samples, the lengths of the chunks returned sum to n, and there is
\* no chunk when n = 0.
C19_ChunksCoverAudio ==
  /\ \A k \in 1..Len(chunks) :
       /\ chunks[k].from = (IF k = 1 THEN 0 ELSE chunks[k - 1].to)
       /\ ChunkSize(k) = chunks[k].to - chunks[k].from
       /\ ChunkSize(k) >= 1
       /\ ChunkSize(k) <= samplesPerChunk
       /\ k < Len(chunks) => ChunkSize(k) = samplesPerChunk
  /\ chunkPc = "returned" =>
       (IF chunks = <<>> THEN 0 ELSE chunks[Len(chunks)].to) = Len(audioData)
  /\ Len(audioData) = 0 => chunks = <<>>

\* C29: chunkAudio terminates for every sample array and every chunk
\* duration that is not negative, those so small that the window
\* floor(chunkDurationMs / 1000 * 16000) is 0 samples included: a call that
\* has begun returns.
C29_ChunkAudioTerminates ==
  (chunkPc \in {"loop", "body"}) ~> (chunkPc = "returned")

\* C20: for every sample value, those outside [-1, 1] included, the value is
\* clamped to [-1, 1] and then scaled, a negative one by 32768 and any other
\* by 32767, so the number stored is in [-32768, 32767] before it is stored
\* and the store does not wrap: a sample of 1 or more gives 32767, a sample
\* of -1 or less gives -32768, a sample in between gives its scaled value
\* truncated, with the sign of the sample, and NaN gives 0.
C20_ClampedNoWrap ==
  /\ Len(wavOutput.data) = Len(wavInput)
  /\ \A k \in 1..Len(wavInput) :
       LET x == wavInput[k]
           out == wavOutput.data[k]
       IN /\ out >= -NegScale
          /\ out <= PosScale
          /\ x.kind = "nan" => out = 0
          /\ x.kind = "+inf" => out = PosScale
          /\ x.kind = "-inf" => out = -NegScale
          /\ x.kind = "finite" =>
               /\ x.num >= SampleDen => out = PosScale
               /\ x.num <= -SampleDen => out = -NegScale
               /\ (0 <= x.num /\ x.num < SampleDen) =>
                    /\ out >= 0
                    /\ out * SampleDen <= x.num * PosScale
                    /\ x.num * PosScale < (out + 1) * SampleDen
               /\ (-SampleDen < x.num /\ x.num < 0) =>
                    /\ out <= 0
                    /\ out * SampleDen >= x.num * NegScale
                    /\ x.num * NegScale > (out - 1) * SampleDen

\* a little-endian unsigned number of size bytes read at a byte offset
RECURSIVE ReadLE(_, _, _)
ReadLE(bytes, offset, size) ==
  IF size = 0 THEN 0
  ELSE bytes[offset + 1] + ByteModulus * ReadLE(bytes, offset + 1, size - 1)

\* C21: for an input of n samples float32ToWav produces exactly 44 + 2n
\* bytes, and the header in them states RIFF size 36 + 2n, 1 channel, sample
\* rate 16000, byte rate 32000, block align 2, 16 bits per sample and data
\* length 2n; for n = 0 the output is the 44-byte header with payload
\* length 0.
C21_WavHeader ==
  wavPc = "returned" =>
    LET n == Len(wavInput)
        bytes == wavOutput.bytes
    IN /\ Len(bytes) = 44 + 2 * n
       /\ ReadLE(bytes, 4, 4) = 36 + 2 * n
       /\ ReadLE(bytes, 22, 2) = 1
       /\ ReadLE(bytes, 24, 4) = 16000
       /\ ReadLE(bytes, 28, 4) = 32000
       /\ ReadLE(bytes, 32, 2) = 2
       /\ ReadLE(bytes, 34, 2) = 16
       /\ ReadLE(bytes, 40, 4) = 2 * n
       /\ n = 0 => Len(bytes) = 44 /\ ReadLE(bytes, 40, 4) = 0

\* an empty array was encoded into 44 bytes
C21_WitnessEmpty ==
  /\ wavPc = "returned"
  /\ wavInput = <<>>
  /\ Len(wavOutput.bytes) = 44

\* an array of 2 samples was encoded into 48 bytes; the second sample is
\* -32768, whose two bytes 0x00 0x80 end the buffer
C21_WitnessTwoSamples ==
  /\ wavPc = "returned"
  /\ Len(wavInput) = 2
  /\ Len(wavOutput.bytes) = 48
  /\ wavOutput.data[2] = -NegScale
  /\ SubSeq(wavOutput.bytes, 47, 48) = <<0, 128>>

\* the samples 2.0 and -1.5 were encoded as 32767 and -32768
C20_Witness ==
  /\ wavPc = "returned"
  /\ wavInput = <<Finite(2 * SampleDen), Finite(-((3 * SampleDen) \div 2))>>
  /\ wavOutput.data = <<PosScale, -NegScale>>

\* ====================================================================
\* AudioProcessor: voice detection
\* ====================================================================
\* A detector is "unborn" until initVAD asks MicVAD.new for it, "pending"
\* while MicVAD.new has not settled, "paused" once created, "listening" after
\* start(), "destroyed" after destroy(), "failed" if MicVAD.new rejected.
\* vad.event is what happened last; vad.stoppedInits are the initVAD calls
\* made before the latest stopListening returned.

Event(kind, by) == [kind |-> kind, by |-> by]

\* initVAD is called: MicVAD.new is asked for a detector (line 32, up to the
\* await)
InitVAD(k) ==
  /\ vad.detectors[k] = "unborn"
  /\ \A j \in 1..(k - 1) : vad.detectors[j] # "unborn"
  /\ vad' = [vad EXCEPT !.detectors[k] = "pending",
                        !.event = Event("initVAD", k)]
  /\ UNCHANGED beyondVad

\* MicVAD.new resolves: vadInstance is assigned, initVAD returns true
\* (lines 32 and 45)
InitResolves(k) ==
  /\ vad.detectors[k] = "pending"
  /\ vad' = [vad EXCEPT !.detectors[k] = "paused",
                        !.vadInstance = k,
                        !.event = Event("created", k)]
  /\ UNCHANGED beyondVad

\* MicVAD.new rejects: onError is called, initVAD returns false (lines 46-49)
InitRejects(k) ==
  /\ vad.detectors[k] = "pending"
  /\ vad' = [vad EXCEPT !.detectors[k] = "failed",
                        !.event = Event("onError", k)]
  /\ UNCHANGED beyondVad

\* startListening: lines 52-56
StartListening ==
  /\ vad' = IF vad.vadInstance # Null
              THEN [vad EXCEPT !.detectors[vad.vadInstance] = "listening",
                               !.event = Event("startListening", Null)]
              ELSE [vad EXCEPT !.event = Event("startListening", Null)]
  /\ UNCHANGED beyondVad

\* stopListening: lines 58-63
StopListening ==
  /\ vad' = [(IF vad.vadInstance # Null
                THEN [vad EXCEPT !.detectors[vad.vadInstance] = "destroyed",
                                 !.vadInstance = Null]
                ELSE vad)
              EXCEPT !.event = Event("stopListening", Null),
                     !.stoppedInits =
                       {k \in Detectors : vad.detectors[k] # "unborn"}]
  /\ UNCHANGED beyondVad

\* a listening detector hears speech begin: lines 33-36
OnSpeechStart(k) ==
  /\ vad.detectors[k] = "listening"
  /\ vad' = [vad EXCEPT !.isRecording = TRUE,
                        !.event = Event("onSpeechStart", k)]
  /\ UNCHANGED beyondVad

\* a listening detector hears speech end: lines 37-40
OnSpeechEnd(k) ==
  /\ vad.detectors[k] = "listening"
  /\ vad' = [vad EXCEPT !.isRecording = FALSE,
                        !.event = Event("onSpeechEnd", k)]
  /\ UNCHANGED beyondVad

NextVad ==
  \/ \E k \in Detectors : InitVAD(k)
  \/ \E k \in Detectors : InitResolves(k)
  \/ \E k \in Detectors : InitRejects(k)
  \/ StartListening
  \/ StopListening
  \/ \E k \in Detectors : OnSpeechStart(k)
  \/ \E k \in Detectors : OnSpeechEnd(k)

SpecVad == Init /\ [][NextVad]_vars

\* C22: after stopListening has returned, whatever the interleaving of
\* initVAD, startListening and stopListening calls before it (a second
\* initVAD begun before the first resolved included), no detector of an
\* initVAD call made before it exists undestroyed, and no such detector
\* delivers a speech-start or speech-end callback.
C22_StopDestroysAll ==
  \A k \in vad.stoppedInits :
    /\ vad.detectors[k] \notin {"paused", "listening"}
    /\ ~(vad.event.by = k /\ vad.event.kind \in {"onSpeechStart", "onSpeechEnd"})

\* ====================================================================
\* CameraManager
\* ====================================================================
\* camera.videoElement and camera.canvasElement tell whether the fields are
\* set. A stream is "unborn" until startCamera asks getUserMedia for it,
\* "pending" until getUserMedia settles, then "live" or "denied", and
\* "stopped" once its tracks are stopped. camera.srcObject is the stream
\* the video element plays; camera.dimensions is "known" once the element
\* has loaded the stream's metadata (videoWidth and videoHeight are 0
\* before).

\* CameraManager.init
CameraInit ==
  /\ camera' = [camera EXCEPT !.videoElement = TRUE,
                              !.canvasElement = TRUE,
                              !.call = "init",
                              !.result = "none"]
  /\ UNCHANGED beyondCamera

\* startCamera is called: getUserMedia is asked for a stream
StartCamera(k) ==
  /\ camera.streams[k] = "unborn"
  /\ \A j \in 1..(k - 1) : camera.streams[j] # "unborn"
  /\ camera' = [camera EXCEPT !.streams[k] = "pending",
                              !.call = "startCamera",
                              !.result = "none"]
  /\ UNCHANGED beyondCamera

\* getUserMedia resolves: the stream is stored and, if there is a video
\* element, played by it
CameraGranted(k) ==
  /\ camera.streams[k] = "pending"
  /\ camera' = IF camera.videoElement
                 THEN [camera EXCEPT !.streams[k] = "live",
                                     !.stream = k,
                                     !.srcObject = k,
                                     !.dimensions = "unknown",
                                     !.call = "startCamera",
                                     !.result = "true"]
                 ELSE [camera EXCEPT !.streams[k] = "live",
                                     !.stream = k,
                                     !.call = "startCamera",
                                     !.result = "false"]
  /\ UNCHANGED beyondCamera

\* getUserMedia rejects: startCamera returns false
CameraDenied(k) ==
  /\ camera.streams[k] = "pending"
  /\ camera' = [camera EXCEPT !.streams[k] = "denied",
                              !.call = "startCamera",
                              !.result = "false"]
  /\ UNCHANGED beyondCamera

\* the video element has loaded the metadata of the stream it plays
MetadataLoaded ==
  /\ camera.srcObject # Null
  /\ camera.streams[camera.srcObject] = "live"
  /\ camera.dimensions = "unknown"
  /\ camera' = [camera EXCEPT !.dimensions = "known"]
  /\ UNCHANGED beyondCamera

\* stopCamera
StopCamera ==
  /\ camera' =
       IF camera.stream = Null
         THEN [camera EXCEPT !.call = "stopCamera", !.result = "none"]
       ELSE IF camera.videoElement
         THEN [camera EXCEPT !.streams[camera.stream] = "stopped",
                             !.srcObject = Null,
                             !.dimensions = "unknown",
                             !.stream = Null,
                             !.call = "stopCamera",
                             !.result = "none"]
       ELSE [camera EXCEPT !.streams[camera.stream] = "stopped",
                           !.stream = Null,
                           !.call = "stopCamera",
                           !.result = "none"]
  /\ UNCHANGED beyondCamera

\* canvas.toDataURL: "data:," for a canvas without area, else the picture
ToDataURL(dimensions) ==
  IF dimensions = "known" THEN "data:image/jpeg" ELSE "data:,"

\* captureFrame; context tells whether getContext('2d') gives a context
CaptureFrame(context) ==
  /\ camera' =
       [camera EXCEPT
          !.call = "captureFrame",
          !.result =
            IF ~camera.videoElement \/ ~camera.canvasElement
               \/ camera.stream = Null
              THEN "null"
            ELSE IF ~context THEN "null"
            ELSE ToDataURL(camera.dimensions)]
  /\ UNCHANGED beyondCamera

NextCamera ==
  \/ CameraInit
  \/ \E k \in Streams : StartCamera(k)
  \/ \E k \in Streams : CameraGranted(k)
  \/ \E k \in Streams : CameraDenied(k)
  \/ MetadataLoaded
  \/ StopCamera
  \/ \E context \in BOOLEAN : CaptureFrame(context)

SpecCamera == Init /\ [][NextCamera]_vars

\* the stream CameraManager holds is live
StreamActive ==
  camera.stream # Null /\ camera.streams[camera.stream] = "live"

\* C23: after any sequence of init, startCamera (granted or denied) and
\* stopCamera, captureFrame returns null whenever no stream is active or the
\* dimensions of the video are not yet known; it returns an image string only
\* when a stream is active and the dimensions are known.
C23_NullUnlessReady ==
  (camera.call = "captureFrame"
     /\ (~StreamActive \/ camera.dimensions = "unknown"))
    => camera.result = "null"

\* ====================================================================
\* ImageProcessor
\* ====================================================================
\* images.items[key] is localStorage.getItem(key) of an image key, Null when
\* there is no such item. The image of the n-th storing call is the number
\* n, so that every image differs from the others.

\* localStorage.removeItem for each of the keys
RemoveItems(items, keys) ==
  [key \in ImageKeys |->
     IF \E i \in 1..Len(keys) : keys[i] = key THEN Null ELSE items[key]]

\* recentImageKeys.splice(maxRecentImages): the keys removed from the array
Spliced(recentImageKeys) ==
  SubSeq(recentImageKeys, maxRecentImages + 1, Len(recentImageKeys))

\* storeImage with an image that reaches localStorage: lines 223-245
StoreImage ==
  /\ Len(images.stored) < MaxStores
  /\ LET base64Image == Len(images.stored) + 1
         imageKey == images.now
         stored == [images.items EXCEPT ![imageKey] = base64Image]
         unshifted == <<imageKey>> \o images.recentImageKeys
         overflow == Len(unshifted) > maxRecentImages
     IN images' =
          [images EXCEPT
             !.items = IF overflow THEN RemoveItems(stored, Spliced(unshifted))
                       ELSE stored,
             !.currentImageKey = imageKey,
             !.recentImageKeys =
               IF overflow THEN SubSeq(unshifted, 1, maxRecentImages)
               ELSE unshifted,
             !.stored = <<[key |-> imageKey, data |-> base64Image]>>
                          \o images.stored,
             !.success = "true"]
  /\ UNCHANGED beyondImages

\* storeImage with an image that does not reach localStorage: the file
\* cannot be read, or the image is beyond the quota and setItem throws
\* (lines 213 and 224, caught at 255-261)
StoreImageFails ==
  /\ images' = [images EXCEPT !.success = "false"]
  /\ UNCHANGED beyondImages

\* a millisecond passes
Tick ==
  /\ images.now < MaxClock
  /\ images' = [images EXCEPT !.now = images.now + 1]
  /\ UNCHANGED beyondImages

\* getRecentImages: lines 265-273
GetRecentImages ==
  LET recentKeys == images.recentImageKeys
      mapped == [i \in 1..Len(recentKeys) |->
                   [key |-> recentKeys[i], data |-> images.items[recentKeys[i]]]]
  IN SelectSeq(mapped, LAMBDA img : img.data # Null)

NextImages ==
  \/ StoreImage
  \/ StoreImageFails
  \/ Tick

SpecImages == Init /\ [][NextImages]_vars

\* the keys that have an image in localStorage
ImageItems == {key \in ImageKeys : images.items[key] # Null}

\* the storing calls whose images are to be retained, newest first
Retained == SubSeq(images.stored, 1, Min(Len(images.stored), maxRecentImages))

\* C24: after any sequence of storeImage calls at most 3 images are retained
\* in localStorage and in recent-image-keys, they are the images stored most
\* recently, listed newest first (the oldest goes first on overflow), and
\* current-image-key names the image stored last.
C24_RecentImagesRetained ==
  /\ Cardinality(ImageItems) <= 3
  /\ Len(images.recentImageKeys) <= 3
  /\ Len(images.recentImageKeys) = Len(Retained)
  /\ \A i \in 1..Len(Retained) :
       /\ images.recentImageKeys[i] = Retained[i].key
       /\ images.items[Retained[i].key] = Retained[i].data
  /\ ImageItems = {Retained[i].key : i \in 1..Len(Retained)}
  /\ images.stored # <<>> => images.currentImageKey = images.stored[1].key

\* C30: after any sequence of storeImage calls, two calls within the same
\* millisecond (and so with the same key) included, every key listed in
\* recent-image-keys has its image in localStorage, and getRecentImages
\* returns one image per listed key.
C30_ListedKeysHaveImages ==
  /\ \A i \in 1..Len(images.recentImageKeys) :
       images.items[images.recentImageKeys[i]] # Null
  /\ Len(GetRecentImages) = Len(images.recentImageKeys)

====
